---- MODULE Spec2Model ----
(***************************************************************************)
(* A model of the PyCross nonogram solver (src/PyCross.py).                *)
(*                                                                         *)
(* Positions and cell indexes are 0-based, as in the Python source; the    *)
(* TLA+ sequences that hold them are 1-based, so cell x of a slice s is    *)
(* s[x+1] (operator Cell) and entry i of a Python list l is l[i+1].        *)
(***************************************************************************)
EXTENDS Integers, Sequences, FiniteSets, TLC

\* Cell states (Board.UNKNOWN, Board.FILLED, Board.BLANK)
UNKNOWN == 0
FILLED == 1
BLANK == 2

\* Bounds of the placement-enumerator specification
EnumMaxLeft == 2
EnumMaxRight == 6
EnumMaxHints == 3
EnumMaxHint == 3

\* Bounds of the line-solver specification
LineMaxLen == 5
LineMaxHints == 3
LineMaxHint == 3
LineMaxOver == 2

\* Bound of the forced-choice specification: the forced choices 0..LineMaxForce
LineMaxForce == 3

\* Bounds of the solver specification: the grids have at most GridMaxCells
\* cells
GridMaxCells == 6

\* Bounds of the picture specification: the pictures have at most PicMaxRows
\* rows and PicMaxCols columns
PicMaxRows == 4
PicMaxCols == 3

\* Bounds of the two-process specification: the seeds 0..MaxSeed besides the
\* default, the number of states of the random generator, and the guesses
\* followed
MaxSeed == 1
RngStates == 8
MaxGuesses == 3

\* parser.add_argument( "--seed", ..., default=42 )
DEFAULT_SEED == 42

VARIABLES
    gen,        \* the frame of a running get_all_positions generator
    yielded,    \* the start-lists it has yielded so far
    line,       \* a line under test: its slice, its hints, the slice at first
    rets,       \* what each call on the line returned or raised, in order
    config,     \* the puzzle and the arguments (class Config, args)
    run,        \* the main loop: board, board_prev, changed, done, dead, ...
    run2,       \* the main loop of a second process started with the same
                \* arguments
    guesses,    \* the "Forcing Row/Col which move m" lines of the two
                \* processes, as <<which, move>> pairs
    rng         \* the random generators of the two processes

vars == <<gen, yielded, line, rets, config, run, run2, guesses, rng>>

NoConfig == [rown |-> 0]
NoRun == [pc |-> "exit"]
NoGuesses == <<<<>>, <<>>>>
NoRng == <<>>

NoLine == [slice |-> <<>>, hints |-> <<>>, orig |-> <<>>]
NoGen == [pc |-> "return"]

(***************************************************************************)
(* Helpers on sequences                                                    *)
(***************************************************************************)
RECURSIVE SumSeq(_)
SumSeq(s) == IF s = <<>> THEN 0 ELSE Head(s) + SumSeq(Tail(s))

RECURSIVE MaxSeq(_)
MaxSeq(s) == IF Len(s) = 1 THEN s[1]
             ELSE LET m == MaxSeq(Tail(s)) IN IF s[1] > m THEN s[1] ELSE m

\* every list of at most n hints, each in 1..h (read_config_file accepts only
\* positive entries)
RECURSIVE HintListsOfLen(_, _)
HintListsOfLen(n, h) ==
    IF n = 0 THEN {<<>>}
    ELSE {Append(l, v) : l \in HintListsOfLen(n - 1, h), v \in 1..h}

HintLists(n, h) == UNION {HintListsOfLen(k, h) : k \in 0..n}

\* sum(hints) + len(hints) - 1
HintsWidth(hints) == SumSeq(hints) + Len(hints) - 1

(***************************************************************************)
(* Board.get_all_positions: the generator, one `while True` iteration at   *)
(* a time.                                                                 *)
(***************************************************************************)
\* the leftmost start of each hint (first loop)
HintsLeftPos(left, hints) ==
    [i \in 1..Len(hints) |-> left + SumSeq(SubSeq(hints, 1, i - 1)) + (i - 1)]

\* the rightmost start of each hint (second loop, then reverse())
HintsRightPos(right, hints) ==
    [i \in 1..Len(hints) |->
        (right + 1) - SumSeq(SubSeq(hints, i, Len(hints))) - (Len(hints) - i)]

\* a mutant of GenStart: the last block is not stepped back before the loop
GenStartNoStepBack(left, right, hints) ==
    LET n == Len(hints)
    IN [hints           |-> hints,
        hints_pos       |-> HintsLeftPos(left, hints),
        hints_right_pos |-> HintsRightPos(right, hints),
        ridx            |-> n - 1,
        idx             |-> n - 1,
        pc              |-> "loop"]

\* the generator's frame when the while loop is entered
GenStart(left, right, hints) ==
    LET n == Len(hints)
        lp == HintsLeftPos(left, hints)
    IN [hints           |-> hints,
        hints_pos       |-> [lp EXCEPT ![n] = @ - 1],
        hints_right_pos |-> HintsRightPos(right, hints),
        ridx            |-> n - 1,
        idx             |-> n - 1,
        pc              |-> "loop"]

\* lines 141-143: move the later blocks to their next possible positions
RECURSIVE ResetFrom(_, _, _, _)
ResetFrom(hp, idx, ridx, hints) ==
    IF idx < ridx
    THEN ResetFrom([hp EXCEPT ![idx + 2] = hp[idx + 1] + hints[idx + 1] + 1],
                   idx + 1, ridx, hints)
    ELSE hp

\* a mutant of GenLoop: the bound test is >= instead of >
GenLoopOffByOne(g) ==
    LET hp == [g.hints_pos EXCEPT ![g.idx + 1] = @ + 1] IN
    IF hp[g.idx + 1] >= g.hints_right_pos[g.idx + 1]
    THEN IF g.idx = 0
         THEN [g EXCEPT !.hints_pos = hp, !.pc = "return"]
         ELSE [g EXCEPT !.hints_pos = hp, !.idx = g.idx - 1, !.pc = "loop"]
    ELSE [g EXCEPT !.hints_pos = ResetFrom(hp, g.idx, g.ridx, g.hints),
                   !.idx = g.ridx, !.pc = "yield"]

\* one iteration of the while loop: it ends in the return, in the continue
\* (pc "loop") or at the yield
GenLoop(g) ==
    LET hp == [g.hints_pos EXCEPT ![g.idx + 1] = @ + 1] IN
    IF hp[g.idx + 1] > g.hints_right_pos[g.idx + 1]
    THEN IF g.idx = 0
         THEN [g EXCEPT !.hints_pos = hp, !.pc = "return"]
         ELSE [g EXCEPT !.hints_pos = hp, !.idx = g.idx - 1, !.pc = "loop"]
    ELSE [g EXCEPT !.hints_pos = ResetFrom(hp, g.idx, g.ridx, g.hints),
                   !.idx = g.ridx, !.pc = "yield"]

\* the whole sequence a `for fill_pos in get_all_positions(...)` loop sees
RECURSIVE GenRun(_, _)
GenRun(g, acc) ==
    IF g.pc = "return" THEN acc
    ELSE LET g2 == GenLoop(g)
         IN GenRun(g2, IF g2.pc = "yield" THEN Append(acc, g2.hints_pos) ELSE acc)

get_all_positions(left, right, hints) == GenRun(GenStart(left, right, hints), <<>>)

(***************************************************************************)
(* Views of a slice (a numpy row or column)                                *)
(***************************************************************************)
Cell(slice, x) == slice[x + 1]

\* numpy.any( slice[a:b] == v ) for 0 <= a (Python clamps b to the length)
AnyEq(slice, a, b, v) ==
    \E x \in a..(b - 1) : x < Len(slice) /\ Cell(slice, x) = v

\* the indexes of lo..hi-1 that are in set S, ascending (the order in which a
\* `for x in range(lo, hi)` loop appends them)
RECURSIVE IndexesIn(_, _, _)
IndexesIn(lo, hi, S) ==
    IF lo >= hi THEN <<>>
    ELSE (IF lo \in S THEN <<lo>> ELSE <<>>) \o IndexesIn(lo + 1, hi, S)

\* the cell indexes of a slice
Indexes(slice) == 0..(Len(slice) - 1)

(***************************************************************************)
(* Board.get_slice_left_right_available                                    *)
(***************************************************************************)
RECURSIVE TrimLeft(_, _)
TrimLeft(slice, left) ==
    IF left < Len(slice) /\ Cell(slice, left) = BLANK
    THEN TrimLeft(slice, left + 1) ELSE left

RECURSIVE TrimRight(_, _, _)
TrimRight(slice, left, right) ==
    IF right > left /\ Cell(slice, right) = BLANK
    THEN TrimRight(slice, left, right - 1) ELSE right

get_slice_left_right_available(slice) ==
    LET left  == TrimLeft(slice, 0)
        right == TrimRight(slice, left, Len(slice) - 1)
    IN [left |-> left, right |-> right, available |-> right - left + 1]

(***************************************************************************)
(* Board.recursive_solve                                                   *)
(***************************************************************************)
\* lines 280-290: walk the blocks of fill_pos; okay is FALSE at the first
\* block with a FILLED cell before it or a BLANK cell under it
RECURSIVE BlocksOkay(_, _, _, _, _)
BlocksOkay(slice, hints, fill_pos, x, end) ==
    IF x = Len(hints) THEN [okay |-> TRUE, end |-> end]
    ELSE LET pos  == fill_pos[x + 1]
             size == hints[x + 1]
         IN IF pos > end /\ AnyEq(slice, end, pos, FILLED)
            THEN [okay |-> FALSE, end |-> end]
            ELSE IF AnyEq(slice, pos, pos + size, BLANK)
                 THEN [okay |-> FALSE, end |-> pos + size]
                 ELSE BlocksOkay(slice, hints, fill_pos, x + 1, pos + size)

\* a mutant of PositionOkay: FILLED cells after the last block are accepted
PositionOkayNoTail(slice, hints, fill_pos, right) ==
    BlocksOkay(slice, hints, fill_pos, 0, 0).okay

\* lines 280-294: the position survives the filter of recursive_solve
PositionOkay(slice, hints, fill_pos, right) ==
    LET b == BlocksOkay(slice, hints, fill_pos, 0, 0)
    IN /\ b.okay
       /\ ~(b.end <= right /\ AnyEq(slice, b.end, Len(slice), FILLED))

\* cell x lies under a block of fill_pos
Covered(hints, fill_pos, x) ==
    \E i \in 1..Len(hints) : fill_pos[i] <= x /\ x < fill_pos[i] + hints[i]

\* lines 273-328: the loop over the positions; it ends either at the forced
\* position or with the count of surviving positions and the fill counts
RECURSIVE PositionsLoop(_, _, _, _, _, _, _, _)
PositionsLoop(slice, hints, right, force, all, k, pos_count, fill_count) ==
    IF k > Len(all)
    THEN [forced |-> FALSE, fill_pos |-> <<>>, pos_count |-> pos_count,
          fill_count |-> fill_count]
    ELSE IF ~PositionOkay(slice, hints, all[k], right)
    THEN PositionsLoop(slice, hints, right, force, all, k + 1, pos_count, fill_count)
    ELSE IF pos_count = force
    THEN [forced |-> TRUE, fill_pos |-> all[k], pos_count |-> pos_count,
          fill_count |-> fill_count]
    ELSE PositionsLoop(slice, hints, right, force, all, k + 1, pos_count + 1,
            [x \in 1..Len(slice) |->
                IF Covered(hints, all[k], x - 1) THEN fill_count[x] + 1
                ELSE fill_count[x]])

\* lines 302-314: commit the forced position
ForcePosition(slice, hints, fill_pos, left, right, pos_count) ==
    LET InBlock(x) == Covered(hints, fill_pos, x) /\ Cell(slice, x) = UNKNOWN
        filled == [x \in 1..Len(slice) |->
                     IF InBlock(x - 1) THEN FILLED ELSE slice[x]]
        ToBlank(x) == Cell(filled, x) = UNKNOWN
        blanked == [x \in 1..Len(slice) |->
                      IF left <= x - 1 /\ x - 1 < right /\ ToBlank(x - 1)
                      THEN BLANK ELSE filled[x]]
    IN [slice   |-> blanked,
        changed |-> IndexesIn(0, Len(slice), {x \in Indexes(slice) : InBlock(x)})
                       \o IndexesIn(left, right, {x \in Indexes(slice) : ToBlank(x)}),
        moves   |-> pos_count,
        err     |-> "none"]

\* 99 = lots of possible moves
LOTS == 99

\* lines 296-345: what recursive_solve makes of the outcome of its loop
AfterPositions(slice, hints, left, right, loop) ==
    LET pos_count == loop.pos_count
        ToFill(x)  == Cell(slice, x) = UNKNOWN /\ loop.fill_count[x + 1] = pos_count
        ToBlank(x) == Cell(slice, x) = UNKNOWN /\ loop.fill_count[x + 1] # pos_count
                        /\ loop.fill_count[x + 1] = 0
        Changes(x) == ToFill(x) \/ ToBlank(x)
    IN IF loop.forced
       THEN ForcePosition(slice, hints, loop.fill_pos, left, right, pos_count)
       ELSE IF pos_count = 0
       THEN [slice |-> slice, changed |-> <<>>, moves |-> 0,
             err |-> "no possible solutions"]
       ELSE [slice   |-> [x \in 1..Len(slice) |->
                            IF ToFill(x - 1) THEN FILLED
                            ELSE IF ToBlank(x - 1) THEN BLANK ELSE slice[x]],
             changed |-> IndexesIn(0, Len(slice), {x \in Indexes(slice) : Changes(x)}),
             moves   |-> pos_count,
             err     |-> "none"]

recursive_solve(slice, hints, available, left, right, force) ==
    IF /\ \A x \in 1..Len(slice) : slice[x] = UNKNOWN
       /\ (available - HintsWidth(hints)) >= MaxSeq(hints)
    THEN [slice |-> slice, changed |-> <<>>, moves |-> LOTS, err |-> "none"]
    ELSE AfterPositions(slice, hints, left, right,
            PositionsLoop(slice, hints, right, force,
                          get_all_positions(left, right, hints), 1, 0,
                          [x \in 1..Len(slice) |-> 0]))

(***************************************************************************)
(* Board.solve_slice                                                       *)
(***************************************************************************)
\* lines 391-403: the perfect fit, hint by hint
RECURSIVE PerfectFit(_, _, _, _, _)
\* a mutant of PerfectFit: every cell of a block is reported as changed
PerfectFitReportsAll(slice, hints, k, left, changed) ==
    IF k > Len(hints) THEN [slice |-> slice, changed |-> changed]
    ELSE
    LET hint == hints[k]
        s1 == [x \in 1..Len(slice) |->
                 IF left <= x - 1 /\ x - 1 < left + hint THEN FILLED ELSE slice[x]]
        c1 == changed \o IndexesIn(left, left + hint, Indexes(slice))
        left1 == left + hint
    IN IF left1 < Len(slice)
       THEN PerfectFit([s1 EXCEPT ![left1 + 1] = BLANK], hints, k + 1, left1 + 1,
                       IF Cell(s1, left1) # BLANK THEN Append(c1, left1) ELSE c1)
       ELSE PerfectFit(s1, hints, k + 1, left1, c1)

PerfectFit(slice, hints, k, left, changed) ==
    IF k > Len(hints) THEN [slice |-> slice, changed |-> changed]
    ELSE
    LET hint == hints[k]
        ToFill(x) == Cell(slice, x) # FILLED
        s1 == [x \in 1..Len(slice) |->
                 IF left <= x - 1 /\ x - 1 < left + hint THEN FILLED ELSE slice[x]]
        c1 == changed \o IndexesIn(left, left + hint, {x \in Indexes(slice) : ToFill(x)})
        left1 == left + hint
    IN IF left1 < Len(slice)
       THEN PerfectFit([s1 EXCEPT ![left1 + 1] = BLANK], hints, k + 1, left1 + 1,
                       IF Cell(s1, left1) # BLANK THEN Append(c1, left1) ELSE c1)
       ELSE PerfectFit(s1, hints, k + 1, left1, c1)

\* lines 412-430: the scan for the filled runs; it stops at the break, or
\* raises when there are more runs than hints
RECURSIVE ScanRuns(_, _, _, _, _)
ScanRuns(slice, hints, x, fills, found) ==
    IF x >= Len(slice) THEN [exceeds |-> FALSE, found |-> found]
    ELSE IF ~fills
    THEN IF Cell(slice, x) = FILLED
         THEN IF Len(found) + 1 > Len(hints)
              THEN [exceeds |-> TRUE, found |-> Append(found, 1)]
              ELSE ScanRuns(slice, hints, x + 1, TRUE, Append(found, 1))
         ELSE ScanRuns(slice, hints, x + 1, FALSE, found)
    ELSE IF Cell(slice, x) = FILLED
         THEN ScanRuns(slice, hints, x + 1, TRUE,
                       [found EXCEPT ![Len(found)] = @ + 1])
         ELSE IF found[Len(found)] # hints[Len(found)]
              THEN [exceeds |-> FALSE, found |-> found]
              ELSE ScanRuns(slice, hints, x + 1, FALSE, found)

\* lines 408-442: the check whether the line is done, r being what
\* recursive_solve returned or raised
AfterRecursive(slice, hints, r) ==
    LET scan == ScanRuns(r.slice, hints, 0, FALSE, <<>>)
        Unknown(x) == Cell(r.slice, x) = UNKNOWN
    IN IF r.err # "none"
       THEN [slice |-> r.slice, changed |-> r.changed, moves |-> r.moves,
             done |-> FALSE, err |-> r.err, path |-> "general"]
       ELSE IF r.changed = <<>>
       THEN [slice |-> r.slice, changed |-> r.changed, moves |-> r.moves,
             done |-> FALSE, err |-> "none", path |-> "general"]
       ELSE IF scan.exceeds
       THEN [slice |-> r.slice, changed |-> r.changed, moves |-> r.moves,
             done |-> FALSE, err |-> "exceeds", path |-> "general"]
       ELSE IF scan.found = hints
       THEN [slice   |-> [x \in 1..Len(slice) |->
                            IF Unknown(x - 1) THEN BLANK ELSE r.slice[x]],
             changed |-> r.changed \o IndexesIn(0, Len(slice), {x \in Indexes(slice) : Unknown(x)}),
             moves |-> r.moves, done |-> TRUE, err |-> "none", path |-> "general"]
       ELSE [slice |-> r.slice, changed |-> r.changed, moves |-> r.moves,
             done |-> FALSE, err |-> "none", path |-> "general"]

\* lines 406-442: the big hammer, then the check
SolveGeneral(slice, hints, available, left, right, force) ==
    AfterRecursive(slice, hints,
        recursive_solve(slice, hints, available, left, right, force))

\* the value solve_slice returns, or the SolveError it raises (err), with the
\* slice as the call leaves it; path names the rule that decided
SolveTrimmed(slice, hints, force, lra) ==
    LET full_width == Len(slice)
        all == IndexesIn(0, full_width, Indexes(slice))
        hints_total == HintsWidth(hints)
        fit == PerfectFit(slice, hints, 1, lra.left, <<>>)
    IN IF hints = <<>>
       THEN [slice |-> [x \in 1..full_width |-> BLANK], changed |-> all,
             moves |-> 0, done |-> TRUE, err |-> "none", path |-> "zero"]
       ELSE IF Len(hints) = 1 /\ hints[1] = full_width
       THEN [slice |-> [x \in 1..full_width |-> FILLED], changed |-> all,
             moves |-> 0, done |-> TRUE, err |-> "none", path |-> "one"]
       ELSE IF lra.available = 0
       THEN [slice |-> slice, changed |-> <<>>, moves |-> 0, done |-> TRUE,
             err |-> "none", path |-> "unavailable"]
       ELSE IF hints_total > lra.available
       THEN [slice |-> slice, changed |-> <<>>, moves |-> 0, done |-> FALSE,
             err |-> "larger than available", path |-> "too large"]
       ELSE IF hints_total = lra.available
       THEN [slice |-> fit.slice, changed |-> fit.changed, moves |-> 0,
             done |-> TRUE, err |-> "none", path |-> "perfect"]
       ELSE SolveGeneral(slice, hints, lra.available, lra.left, lra.right, force)

solve_slice(slice, hints, force) ==
    SolveTrimmed(slice, hints, force, get_slice_left_right_available(slice))

(***************************************************************************)
(* Board.slice_is_legal                                                    *)
(***************************************************************************)
\* lines 633-650: the position passes the filter of slice_is_legal
LegalPositionOkay(slice, hints, fill_pos, right) ==
    LET b == BlocksOkay(slice, hints, fill_pos, 0, 0)
    IN /\ b.okay
       /\ ~(b.end < right /\ AnyEq(slice, b.end, Len(slice), FILLED))

\* what slice_is_legal returns; with no hints and a FILLED cell it does not
\* return: it prints the slice and calls sys.exit(1)
slice_is_legal(slice, hints) ==
    IF hints = <<>>
    THEN IF AnyEq(slice, 0, Len(slice), FILLED) THEN "exit" ELSE "legal"
    ELSE LET lra == get_slice_left_right_available(slice)
             all == get_all_positions(lra.left, lra.right, hints)
         IN IF \E k \in 1..Len(all) :
                   LegalPositionOkay(slice, hints, all[k], lra.right)
            THEN "legal" ELSE "illegal"

(***************************************************************************)
(* The board (class Board) and the puzzle (class Config)                   *)
(***************************************************************************)
\* Board.blank(): col_changed and col_moves are built with config.rown
blank(cfg) ==
    [grid        |-> [y \in 1..cfg.rown |-> [x \in 1..cfg.coln |-> UNKNOWN]],
     row_solved  |-> [y \in 1..cfg.rown |-> FALSE],
     col_solved  |-> [x \in 1..cfg.coln |-> FALSE],
     row_changed |-> [y \in 1..cfg.rown |-> TRUE],
     col_changed |-> [y \in 1..cfg.rown |-> TRUE],
     row_moves   |-> [y \in 1..cfg.rown |-> 0],
     col_moves   |-> [y \in 1..cfg.rown |-> 0]]

\* self.grid[:,x]
Column(grid, x) == [y \in 1..Len(grid) |-> grid[y][x + 1]]

\* self.grid[:,x] = col (the column is a view: the write is in place)
WithColumn(grid, x, col) ==
    [y \in 1..Len(grid) |-> [grid[y] EXCEPT ![x + 1] = col[y]]]

\* the entries of list l before the first one that is not an index of an
\* array of length n (where the flag loop raises IndexError)
RECURSIVE InBounds(_, _)
InBounds(l, n) ==
    IF l = <<>> \/ Head(l) >= n THEN <<>>
    ELSE <<Head(l)>> \o InBounds(Tail(l), n)

SeqToSet(l) == {l[i] : i \in 1..Len(l)}

\* for idx in changed: flags[idx] = True
Flagged(flags, changed) ==
    [i \in 1..Len(flags) |-> flags[i] \/ (i - 1) \in SeqToSet(changed)]

(***************************************************************************)
(* Board.solve_next                                                        *)
(***************************************************************************)
\* lines 457-484: the loop over the rows; RowSolved is the part of one
\* iteration that follows the call of solve_slice, r being its outcome
RECURSIVE RowsLoop(_, _, _, _, _)
RECURSIVE RowSolved(_, _, _, _, _, _)
RowsLoop(cfg, b, y, changes, rows_done) ==
    IF y = cfg.rown
    THEN [board |-> b, changes |-> changes, n_done |-> rows_done, exc |-> "none"]
    ELSE IF b.row_solved[y + 1]
    THEN RowsLoop(cfg, b, y + 1, changes, rows_done + 1)
    ELSE IF ~b.row_changed[y + 1]
    THEN RowsLoop(cfg, b, y + 1, changes, rows_done)
    ELSE RowSolved(cfg, b, y, changes, rows_done,
                   solve_slice(b.grid[y + 1], cfg.rows[y + 1], -1))

RowSolved(cfg, b, y, changes, rows_done, r) ==
    LET b1 == [b EXCEPT !.grid[y + 1] = r.slice]
        b2 == [b1 EXCEPT !.row_moves[y + 1] = r.moves]
        ok == InBounds(r.changed, Len(b.col_changed))
        b3 == IF r.changed = <<>> THEN b2
              ELSE [b2 EXCEPT !.row_changed[y + 1] = TRUE,
                              !.col_changed = Flagged(@, ok)]
        solved == r.done \/ ~AnyEq(r.slice, 0, Len(r.slice), UNKNOWN)
        b4 == IF solved THEN [b3 EXCEPT !.row_solved[y + 1] = TRUE] ELSE b3
    IN IF r.err # "none"
       THEN [board |-> b1, changes |-> changes, n_done |-> rows_done,
             exc |-> "SolveError"]
       ELSE IF ok # r.changed
       THEN [board |-> b3, changes |-> TRUE, n_done |-> rows_done,
             exc |-> "IndexError"]
       ELSE RowsLoop(cfg, b4, y + 1, changes \/ r.changed # <<>>,
                     IF solved THEN rows_done + 1 ELSE rows_done)

\* lines 487-513: the loop over the columns; ColSolved is the part of one
\* iteration that follows the call of solve_slice, r being its outcome
RECURSIVE ColsLoop(_, _, _, _, _)
RECURSIVE ColSolved(_, _, _, _, _, _)
ColsLoop(cfg, b, x, changes, cols_done) ==
    IF x = cfg.coln
    THEN [board |-> b, changes |-> changes, n_done |-> cols_done, exc |-> "none"]
    ELSE IF b.col_solved[x + 1]
    THEN ColsLoop(cfg, b, x + 1, changes, cols_done + 1)
    ELSE IF x >= Len(b.col_changed)
    THEN [board |-> b, changes |-> changes, n_done |-> cols_done,
          exc |-> "IndexError"]
    ELSE IF ~b.col_changed[x + 1]
    THEN ColsLoop(cfg, b, x + 1, changes, cols_done)
    ELSE ColSolved(cfg, b, x, changes, cols_done,
                   solve_slice(Column(b.grid, x), cfg.cols[x + 1], -1))

ColSolved(cfg, b, x, changes, cols_done, r) ==
    LET b1 == [b EXCEPT !.grid = WithColumn(@, x, r.slice)]
        b2 == [b1 EXCEPT !.col_moves[x + 1] = r.moves]
        b3 == IF r.changed = <<>> THEN b2
              ELSE [b2 EXCEPT !.col_changed[x + 1] = TRUE,
                              !.row_changed = Flagged(@, r.changed)]
        solved == r.done \/ ~AnyEq(r.slice, 0, Len(r.slice), UNKNOWN)
        b4 == IF solved THEN [b3 EXCEPT !.col_solved[x + 1] = TRUE] ELSE b3
    IN IF r.err # "none"
       THEN [board |-> b1, changes |-> changes, n_done |-> cols_done,
             exc |-> "SolveError"]
       ELSE ColsLoop(cfg, b4, x + 1, changes \/ r.changed # <<>>,
                     IF solved THEN cols_done + 1 ELSE cols_done)

\* ( changed, done, dead ) as returned, or the exception that leaves the
\* call, with the board as the call leaves it
SolveNextReturn(cfg, rows, cols) ==
    [board |-> cols.board, exc |-> cols.exc, changed |-> cols.changes,
     done |-> rows.n_done = cfg.rown /\ cols.n_done = cfg.coln,
     dead |-> FALSE]

SolveNextCols(cfg, rows) ==
    IF rows.exc # "none"
    THEN [board |-> rows.board, exc |-> rows.exc,
          changed |-> FALSE, done |-> FALSE, dead |-> FALSE]
    ELSE SolveNextReturn(cfg, rows,
            ColsLoop(cfg, rows.board, 0, rows.changes, 0))

solve_next(cfg, b) == SolveNextCols(cfg, RowsLoop(cfg, b, 0, FALSE, 0))

(***************************************************************************)
(* Board.check_all_legal                                                   *)
(***************************************************************************)
\* only the lines without hints reach slice_is_legal, which exits the process
\* instead of returning False: "exit" or "ok", a SolveError is never raised
check_all_legal(cfg, b) ==
    IF \/ \E y \in 0..(cfg.rown - 1) :
             /\ cfg.rows[y + 1] = <<>>
             /\ slice_is_legal(b.grid[y + 1], cfg.rows[y + 1]) # "legal"
       \/ \E x \in 0..(cfg.coln - 1) :
             /\ cfg.cols[x + 1] = <<>>
             /\ slice_is_legal(Column(b.grid, x), cfg.cols[x + 1]) # "legal"
    THEN "exit" ELSE "ok"

(***************************************************************************)
(* Board.force_random_move, one draw or one attempt at a time              *)
(***************************************************************************)
\* x + 1000 names column x in the choices
COL_BASE == 1000

NoFrame == [choices |-> <<>>, total |-> 0, max_choices |-> 0, tried |-> {},
            r |-> 0, k |-> 0, exc |-> "none"]

\* max( self.row_moves + self.col_moves ): numpy adds the two arrays entry
\* by entry
MaxChoices(b) ==
    LET sums == {b.row_moves[i] + b.col_moves[i] : i \in 1..Len(b.row_moves)}
    IN CHOOSE m \in sums : \A n \in sums : n <= m

\* [ weight, which ] lists compare like tuples
ChoiceBefore(c, d) == c[1] > d[1] \/ (c[1] = d[1] /\ c[2] > d[2])

\* choices.sort( reverse=True )
RECURSIVE SortedChoices(_)
SortedChoices(S) ==
    IF S = {} THEN <<>>
    ELSE LET first == CHOOSE c \in S : \A d \in S \ {c} : ChoiceBefore(c, d)
         IN <<first>> \o SortedChoices(S \ {first})

\* lines 530-546: the frame of force_random_move at its first draw; exc is
\* "IndexError" when an unsolved column has no entry in col_moves
ForceFrame(cfg, b) ==
    LET max_choices == MaxChoices(b)
        rows == {<<max_choices - b.row_moves[y + 1], y>> :
                    y \in {y \in 0..(cfg.rown - 1) : ~b.row_solved[y + 1]}}
        ucols == {x \in 0..(cfg.coln - 1) : ~b.col_solved[x + 1]}
        cols == {<<max_choices - b.col_moves[x + 1], x + COL_BASE>> :
                    x \in {x \in ucols : x < Len(b.col_moves)}}
        choices == SortedChoices(rows \cup cols)
    IN IF \E x \in ucols : x >= Len(b.col_moves)
       THEN [NoFrame EXCEPT !.exc = "IndexError"]
       ELSE [choices |-> choices,
             total |-> SumSeq([i \in 1..Len(choices) |-> choices[i][1]]),
             max_choices |-> max_choices, tried |-> {}, r |-> 0, k |-> 0,
             exc |-> "none"]

\* lines 557-560: the next choice, from the k-th on, that r lands in
RECURSIVE Walk(_, _, _)
Walk(choices, k, r) ==
    IF k > Len(choices) THEN [k |-> 0, r |-> r]
    ELSE IF r > choices[k][1] THEN Walk(choices, k + 1, r - choices[k][1])
    ELSE [k |-> k, r |-> r]

\* lines 577-582 and 601-606: the orthogonal lines through the changed cells,
\* in order, up to the first illegal one
RECURSIVE CheckChanged(_, _, _, _)
CheckChanged(cfg, grid, changed_idx, is_row) ==
    IF changed_idx = <<>> THEN "legal"
    ELSE LET idx == Head(changed_idx)
             v == IF is_row
                  THEN slice_is_legal(Column(grid, idx), cfg.cols[idx + 1])
                  ELSE slice_is_legal(grid[idx + 1], cfg.rows[idx + 1])
         IN IF v # "legal" THEN v
            ELSE CheckChanged(cfg, grid, Tail(changed_idx), is_row)

(***************************************************************************)
(* The main loop (__main__), as steps of one run                           *)
(*   run.pc: "top" (start of a `while True` iteration), "force" (the inner *)
(*   `while True` that calls force_random_move), "draw" and "attempt"      *)
(*   (inside force_random_move), and the ends: "solved" (break on done),   *)
(*   "dead" (break on SolveError), "stalled" (break, no --force), "fatal"  *)
(*   (the outer `except Exception`), "exit" (sys.exit(1))                  *)
(***************************************************************************)
None == <<>>

Terminal == {"solved", "dead", "stalled", "fatal", "exit"}

\* the state when the main loop is entered
RunStart(cfg) ==
    [board      |-> blank(cfg),
     board_prev |-> None,
     assigned   |-> FALSE,     \* changed and dead are bound
     changed    |-> FALSE,
     done       |-> FALSE,
     dead       |-> FALSE,
     pc         |-> "top",
     frm        |-> NoFrame,
     raised     |-> "no"]       \* the last round: "no", or SolveError "with
                                \* checkpoint" / "without checkpoint"

\* as AfterRound, but every stall takes a new checkpoint
AfterRoundNewCheckpoint(cfg, rn) ==
    IF ~rn.assigned THEN [rn EXCEPT !.pc = "fatal"]
    ELSE IF rn.dead THEN [rn EXCEPT !.pc = "dead"]
    ELSE IF rn.done THEN [rn EXCEPT !.pc = "solved"]
    ELSE IF ~rn.changed
    THEN IF cfg.force
         THEN [rn EXCEPT !.pc = "force", !.board_prev = <<rn.board>>]
         ELSE [rn EXCEPT !.pc = "stalled"]
    ELSE [rn EXCEPT !.pc = "top"]

\* lines 781-820: what follows the try block
AfterRound(cfg, rn) ==
    IF ~rn.assigned THEN [rn EXCEPT !.pc = "fatal"]
    ELSE IF rn.dead THEN [rn EXCEPT !.pc = "dead"]
    ELSE IF rn.done THEN [rn EXCEPT !.pc = "solved"]
    ELSE IF ~rn.changed
    THEN IF cfg.force
         THEN [rn EXCEPT !.pc = "force",
                          !.board_prev = IF @ = None THEN <<rn.board>> ELSE @]
         ELSE [rn EXCEPT !.pc = "stalled"]
    ELSE [rn EXCEPT !.pc = "top"]

\* lines 761-779, then AfterRound: one iteration of the main loop up to the
\* next iteration, the force loop or the end
RoundOutcome(cfg, rn, sn) ==
    LET r0 == [rn EXCEPT !.raised = "no"]
    IN IF sn.exc = "IndexError"
       THEN [r0 EXCEPT !.board = sn.board, !.pc = "fatal"]
       ELSE IF sn.exc = "none"
       THEN IF check_all_legal(cfg, sn.board) = "exit"
            THEN [r0 EXCEPT !.board = sn.board, !.assigned = TRUE,
                            !.changed = sn.changed, !.done = sn.done,
                            !.dead = sn.dead, !.pc = "exit"]
            ELSE AfterRound(cfg,
                    [r0 EXCEPT !.board = sn.board, !.assigned = TRUE,
                               !.changed = sn.changed, !.done = sn.done,
                               !.dead = sn.dead])
       ELSE \* SolveError
       IF ~cfg.force
       THEN [r0 EXCEPT !.board = sn.board, !.pc = "dead",
                       !.raised = "without checkpoint"]
       ELSE IF rn.board_prev # None
       THEN AfterRound(cfg,
               [r0 EXCEPT !.board = rn.board_prev[1],
                          !.raised = "with checkpoint"])
       ELSE AfterRound(cfg,
               [r0 EXCEPT !.board = sn.board, !.raised = "without checkpoint"])

RoundStep(cfg, rn) == RoundOutcome(cfg, rn, solve_next(cfg, rn.board))

\* lines 806-815 and 530-546: board = board.copy(); force_random_move()
\* up to its first draw
ForceStartStep(cfg, rn) ==
    LET f == ForceFrame(cfg, rn.board)
    IN IF f.exc # "none" THEN [rn EXCEPT !.pc = "exit"]
       ELSE [rn EXCEPT !.pc = "draw", !.frm = f]

\* after the k-th choice was undone, or for a fresh r: on to the next choice
\* r lands in, or back to the draw
NextChoice(rn, k, r) ==
    LET w == Walk(rn.frm.choices, k, r)
    IN IF w.k = 0 THEN [rn EXCEPT !.pc = "draw", !.frm.r = w.r, !.frm.k = 0]
       ELSE [rn EXCEPT !.pc = "attempt", !.frm.r = w.r, !.frm.k = w.k]

\* lines 550-560: r = random.randrange( 0, total ) came out as d
DrawStep(rn, d) ==
    IF d \in rn.frm.tried THEN rn
    ELSE NextChoice([rn EXCEPT !.frm.tried = @ \cup {d}], 1, d)

\* the numbers random.randrange( 0, n ) can return
RandRange(n) == 0..(n - 1)

\* the line of the choice under attempt, its hints, and its moves count
AttemptIsRow(rn) == rn.frm.choices[rn.frm.k][2] < COL_BASE
AttemptWhich(rn) ==
    IF AttemptIsRow(rn) THEN rn.frm.choices[rn.frm.k][2]
    ELSE rn.frm.choices[rn.frm.k][2] - COL_BASE
AttemptHints(cfg, rn) ==
    IF AttemptIsRow(rn) THEN cfg.rows[AttemptWhich(rn) + 1]
    ELSE cfg.cols[AttemptWhich(rn) + 1]
AttemptSlice(rn) ==
    IF AttemptIsRow(rn) THEN rn.board.grid[AttemptWhich(rn) + 1]
    ELSE Column(rn.board.grid, AttemptWhich(rn))
WithSlice(rn, grid, slice) ==
    IF AttemptIsRow(rn) THEN [grid EXCEPT ![AttemptWhich(rn) + 1] = slice]
    ELSE WithColumn(grid, AttemptWhich(rn), slice)

\* lines 568 and 593: "get the exact number of moves possible right now",
\* called with force = the line's stored moves count
AttemptFirst(cfg, rn) ==
    solve_slice(AttemptSlice(rn), AttemptHints(cfg, rn),
                rn.frm.max_choices - rn.frm.choices[rn.frm.k][1])


\* as AttemptOutcome, but an illegal crossing line does not put the grid back
AttemptOutcomeNoUndo(cfg, rn, second) ==
    LET grid2 == WithSlice(rn, rn.board.grid, second.slice)
        legal == CheckChanged(cfg, grid2, second.changed, AttemptIsRow(rn))
        which == AttemptWhich(rn)
    IN IF second.err # "none"
       THEN [rn EXCEPT !.board.grid = grid2, !.pc = "force", !.frm = NoFrame]
       ELSE IF legal = "exit"
       THEN [rn EXCEPT !.board.grid = grid2, !.pc = "exit"]
       ELSE IF legal = "illegal"
       THEN NextChoice([rn EXCEPT !.board.grid = grid2], rn.frm.k + 1, rn.frm.r)
       ELSE IF ~second.done
       THEN [rn EXCEPT !.board.grid = grid2, !.pc = "top", !.frm = NoFrame]
       ELSE IF which >= Len(rn.board.row_solved)
       THEN [rn EXCEPT !.board.grid = grid2, !.pc = "exit"]
       ELSE [rn EXCEPT !.board.grid = grid2,
                       !.board.row_solved[which + 1] = TRUE,
                       !.pc = "top", !.frm = NoFrame]

\* as AttemptOutcome, but an illegal crossing line puts the grid of the
\* checkpoint back
AttemptOutcomeUndoToCheckpoint(cfg, rn, second) ==
    LET grid2 == WithSlice(rn, rn.board.grid, second.slice)
        legal == CheckChanged(cfg, grid2, second.changed, AttemptIsRow(rn))
        which == AttemptWhich(rn)
    IN IF second.err # "none"
       THEN [rn EXCEPT !.board.grid = grid2, !.pc = "force", !.frm = NoFrame]
       ELSE IF legal = "exit"
       THEN [rn EXCEPT !.board.grid = grid2, !.pc = "exit"]
       ELSE IF legal = "illegal"
       THEN NextChoice([rn EXCEPT !.board.grid = rn.board_prev[1].grid],
                       rn.frm.k + 1, rn.frm.r)
       ELSE IF ~second.done
       THEN [rn EXCEPT !.board.grid = grid2, !.pc = "top", !.frm = NoFrame]
       ELSE IF which >= Len(rn.board.row_solved)
       THEN [rn EXCEPT !.board.grid = grid2, !.pc = "exit"]
       ELSE [rn EXCEPT !.board.grid = grid2,
                       !.board.row_solved[which + 1] = TRUE,
                       !.pc = "top", !.frm = NoFrame]

\* lines 574-613, second being the outcome of the second solve_slice: a
\* SolveError leaves force_random_move, an illegal crossing line puts the
\* grid back and goes on with the next choice
AttemptOutcome(cfg, rn, second) ==
    LET grid2 == WithSlice(rn, rn.board.grid, second.slice)
        legal == CheckChanged(cfg, grid2, second.changed, AttemptIsRow(rn))
        which == AttemptWhich(rn)
    IN IF second.err # "none"
       THEN [rn EXCEPT !.board.grid = grid2, !.pc = "force", !.frm = NoFrame]
       ELSE IF legal = "exit"
       THEN [rn EXCEPT !.board.grid = grid2, !.pc = "exit"]
       ELSE IF legal = "illegal"
       THEN NextChoice(rn, rn.frm.k + 1, rn.frm.r)
       ELSE IF ~second.done
       THEN [rn EXCEPT !.board.grid = grid2, !.pc = "top", !.frm = NoFrame]
       ELSE IF which >= Len(rn.board.row_solved)
       THEN [rn EXCEPT !.board.grid = grid2, !.pc = "exit"]
       ELSE [rn EXCEPT !.board.grid = grid2,
                       !.board.row_solved[which + 1] = TRUE,
                       !.pc = "top", !.frm = NoFrame]

\* lines 570-573 and 595-597 with move = random.randrange( 0, moves ) = d
AttemptStep(cfg, rn, first, d) ==
    AttemptOutcome(cfg, rn, solve_slice(first.slice, AttemptHints(cfg, rn), d))

\* the first solve_slice raised SolveError, which leaves force_random_move
\* to the force loop; or moves = 0 and randrange raises ValueError, which
\* exits the process; or a move is drawn
AttemptWith(cfg, rn, first, d) ==
    IF first.err # "none"
    THEN [rn EXCEPT !.board.grid = WithSlice(rn, @, first.slice),
                    !.pc = "force", !.frm = NoFrame]
    ELSE IF first.moves = 0
    THEN [rn EXCEPT !.board.grid = WithSlice(rn, @, first.slice), !.pc = "exit"]
    ELSE AttemptStep(cfg, rn, first, d)

AttemptMove(cfg, rn, d) == AttemptWith(cfg, rn, AttemptFirst(cfg, rn), d)

\* an attempt prints its "Forcing ... move" line when it draws a move
Guessing(first) == first.err = "none" /\ first.moves > 0

\* the moves of random.randrange( 0, moves ), 0 where it is not reached
MoveBound(first) == IF Guessing(first) THEN first.moves ELSE 0

\* lines 550-553 with r = d; total = 0 makes randrange raise ValueError and
\* the force loop exits the process
DrawMove(rn, d) ==
    IF rn.frm.total = 0 THEN [rn EXCEPT !.pc = "exit"] ELSE DrawStep(rn, d)

\* the n of the random.randrange( 0, n ) the run is about to return from,
\* 0 where it draws nothing
DrawBound(cfg, rn) ==
    IF rn.pc = "draw" THEN rn.frm.total
    ELSE IF rn.pc = "attempt" THEN MoveBound(AttemptFirst(cfg, rn))
    ELSE 0

\* the numbers that randrange can return ({0} where the run draws nothing)
DrawsUpTo(n) == IF n = 0 THEN {0} ELSE RandRange(n)

Draws(cfg, rn) == DrawsUpTo(DrawBound(cfg, rn))

\* one step of a run, d being what its randrange returns
Step(cfg, rn, d) ==
    IF rn.pc = "top" THEN RoundStep(cfg, rn)
    ELSE IF rn.pc = "force" THEN ForceStartStep(cfg, rn)
    ELSE IF rn.pc = "draw" THEN DrawMove(rn, d)
    ELSE IF rn.pc = "attempt" THEN AttemptMove(cfg, rn, d)
    ELSE rn

\* the guesses of a run after that step
StepGuesses(cfg, rn, d, made) ==
    IF rn.pc = "attempt" /\ Guessing(AttemptFirst(cfg, rn))
    THEN Append(made, <<rn.frm.choices[rn.frm.k][2], d>>)
    ELSE made

(***************************************************************************)
(* The random module.  Its generator is a function of its state alone;    *)
(* a small congruential generator stands for the Mersenne Twister.  The    *)
(* state is set by random.seed( args.seed ) when args.seed is truthy, and  *)
(* comes from the operating system's entropy otherwise, which the model    *)
(* reads at the first draw.                                                *)
(***************************************************************************)
\* lines 736-737: if args.seed: random.seed( args.seed )
SeedRng(seed) ==
    IF seed # 0 THEN [known |-> TRUE, state |-> seed % RngStates]
    ELSE [known |-> FALSE, state |-> 0]

\* the states the generator can be in at the draw
RngChoices(g, n) ==
    IF g.known \/ n = 0 THEN {g.state} ELSE 0..(RngStates - 1)

\* what random.randrange( 0, n ) returns in that state, and the next state
RngValue(state, n) == IF n = 0 THEN 0 ELSE (state * 29) % n
RngNext(g, state, n) ==
    IF n = 0 THEN g
    ELSE [known |-> TRUE, state |-> (state * 5 + 3) % RngStates]

(***************************************************************************)
(* The enumerator specification: a caller picks left, right and hints and  *)
(* pulls placements from the generator until it returns.                   *)
(***************************************************************************)
EnumInputs ==
    {<<l, r, h>> \in (0..EnumMaxLeft) \X (-1..EnumMaxRight)
                     \X (HintLists(EnumMaxHints, EnumMaxHint) \ {<<>>}) :
        r >= l - 1}

EnumInit ==
    /\ \E in \in EnumInputs :
          gen = [left |-> in[1], right |-> in[2]] @@ GenStart(in[1], in[2], in[3])
    /\ yielded = <<>>
    /\ line = NoLine
    /\ rets = <<>>
    /\ config = NoConfig
    /\ run = NoRun
    /\ run2 = NoRun
    /\ guesses = NoGuesses
    /\ rng = NoRng

EnumStep ==
    /\ gen.pc # "return"
    /\ LET g2 == GenLoop(gen)
       IN /\ gen' = g2
          /\ yielded' = IF g2.pc = "yield" THEN Append(yielded, g2.hints_pos)
                        ELSE yielded
    /\ UNCHANGED <<line, rets, config, run, run2, guesses, rng>>

EnumNext == EnumStep

SpecEnum == EnumInit /\ [][EnumNext]_vars

SpecEnumFair == SpecEnum /\ WF_vars(EnumStep)

(***************************************************************************)
(* The solver specification: one run of the main loop on one puzzle.  The  *)
(* puzzles are those of at most GridMaxCells cells in which the hints of   *)
(* every line fit the line; the numbers drawn are arbitrary.               *)
(***************************************************************************)
FitLists(n) == {h \in HintLists((n + 1) \div 2, n) : HintsWidth(h) <= n}

Puzzles ==
    UNION {
        {[rown |-> d[1], coln |-> d[2], rows |-> rs, cols |-> cs] :
            rs \in [1..d[1] -> FitLists(d[2])], cs \in [1..d[2] -> FitLists(d[1])]}
        : d \in {d \in (1..GridMaxCells) \X (1..GridMaxCells) :
                    d[1] * d[2] <= GridMaxCells}}

Init ==
    /\ \E p \in Puzzles, f \in BOOLEAN :
          config = p @@ [force |-> f, seed |-> DEFAULT_SEED]
    /\ run = RunStart(config)
    /\ run2 = NoRun
    /\ guesses = NoGuesses
    /\ rng = NoRng
    /\ gen = NoGen
    /\ yielded = <<>>
    /\ line = NoLine
    /\ rets = <<>>

\* one iteration of the main loop: solve_next, check_all_legal, and what the
\* loop does with the outcome
Round ==
    /\ run.pc = "top"
    /\ run' = RoundStep(config, run)
    /\ UNCHANGED <<gen, yielded, line, rets, config, run2, guesses, rng>>

\* the force loop enters force_random_move
ForceStart ==
    /\ run.pc = "force"
    /\ run' = ForceStartStep(config, run)
    /\ UNCHANGED <<gen, yielded, line, rets, config, run2, guesses, rng>>

\* force_random_move draws r
Draw ==
    /\ run.pc = "draw"
    /\ \E d \in Draws(config, run) : run' = DrawMove(run, d)
    /\ UNCHANGED <<gen, yielded, line, rets, config, run2, guesses, rng>>

\* force_random_move tries the choice r landed in
Attempt ==
    /\ run.pc = "attempt"
    /\ \E d \in Draws(config, run) : run' = AttemptMove(config, run, d)
    /\ UNCHANGED <<gen, yielded, line, rets, config, run2, guesses, rng>>

Next == Round \/ ForceStart \/ Draw \/ Attempt

Spec == Init /\ [][Next]_vars

(***************************************************************************)
(* Claims about the placement enumerator                                   *)
(***************************************************************************)
\* what a legal placement is: one start per hint, every block inside
\* [left, right], blocks in hint order with at least one empty cell between
LegalPlacements(left, right, hints) ==
    {p \in [1..Len(hints) -> left..right] :
        /\ \A i \in 1..Len(hints) : p[i] + hints[i] - 1 <= right
        /\ \A i \in 1..(Len(hints) - 1) : p[i + 1] >= p[i] + hints[i] + 1}

YieldedSet == {yielded[k] : k \in 1..Len(yielded)}

\* C1: the start-lists yielded by get_all_positions(left, right, hints) are
\* exactly the legal placements (nothing illegal is yielded, and once the
\* generator has returned nothing legal is missing), so the sequence is empty
\* if and only if sum(hints)+len(hints)-1 > right-left+1.
C1_ExactlyLegalPlacements ==
    /\ YieldedSet \subseteq LegalPlacements(gen.left, gen.right, gen.hints)
    /\ gen.pc = "return" =>
          /\ YieldedSet = LegalPlacements(gen.left, gen.right, gen.hints)
          /\ yielded = get_all_positions(gen.left, gen.right, gen.hints)
          /\ (yielded = <<>>) <=>
                (HintsWidth(gen.hints) > gen.right - gen.left + 1)

C1_Witness ==
    /\ gen.pc = "return"
    /\ Len(gen.hints) = 3
    /\ Len(yielded) >= 4

\* lexicographic order on start-lists of the same length
RECURSIVE LexLess(_, _)
LexLess(p, q) ==
    /\ p # <<>>
    /\ \/ p[1] < q[1]
       \/ p[1] = q[1] /\ LexLess(Tail(p), Tail(q))

\* C2: the enumerator yields its placements in strictly increasing
\* lexicographic order (so none twice); for bounds [0,4] and hints [3] it
\* yields exactly [0], [1], [2] in that order; and it always terminates.
C2_OrderedAndTerminates ==
    /\ [](\A k \in 1..(Len(yielded) - 1) : LexLess(yielded[k], yielded[k + 1]))
    /\ []((gen.pc = "return" /\ gen.left = 0 /\ gen.right = 4 /\ gen.hints = <<3>>)
            => yielded = << <<0>>, <<1>>, <<2>> >>)
    /\ <>(gen.pc = "return")

C2_Witness ==
    /\ gen.pc = "return"
    /\ gen.left = 0 /\ gen.right = 4 /\ gen.hints = <<3>>
    /\ Len(yielded) = 3

(***************************************************************************)
(* The line specification: a caller holds one line with arbitrary marks    *)
(* and calls solve_slice on it, twice at most, without a forced choice.    *)
(***************************************************************************)
LineInputs ==
    UNION {
        {<<s, h>> \in [1..n -> {UNKNOWN, FILLED, BLANK}]
                      \X HintLists(LineMaxHints, LineMaxHint) :
            HintsWidth(h) <= n + LineMaxOver}
        : n \in 1..LineMaxLen}

LineInit ==
    /\ \E in \in LineInputs :
          line = [slice |-> in[1], hints |-> in[2], orig |-> in[1]]
    /\ rets = <<>>
    /\ gen = NoGen
    /\ yielded = <<>>
    /\ config = NoConfig
    /\ run = NoRun
    /\ run2 = NoRun
    /\ guesses = NoGuesses
    /\ rng = NoRng

\* ( changed, valid_moves, done ) = self.solve_slice( row, hints, rowstr, -1 )
LineSolve ==
    /\ Len(rets) < 2
    /\ LET r == solve_slice(line.slice, line.hints, -1)
       IN /\ rets' = Append(rets, r)
          /\ line' = [line EXCEPT !.slice = r.slice]
    /\ UNCHANGED <<gen, yielded, config, run, run2, guesses, rng>>

LineNext == LineSolve

SpecLine == LineInit /\ [][LineNext]_vars

(***************************************************************************)
(* Claims about the line solver                                            *)
(***************************************************************************)
\* the placements of the hints on the whole line that are consistent with
\* its marks: no block covers a Blank cell, every Filled cell is covered
ConsistentPlacements(slice, hints) ==
    {p \in LegalPlacements(0, Len(slice) - 1, hints) :
        \A x \in Indexes(slice) :
            /\ Cell(slice, x) = BLANK  => ~Covered(hints, p, x)
            /\ Cell(slice, x) = FILLED => Covered(hints, p, x)}

\* C3: on the general path, without a forced choice, on a line with at least
\* one consistent placement, solve_slice returns normally; a cell that was
\* Unknown becomes Filled iff every consistent placement covers it, Blank iff
\* none does, and stays Unknown otherwise; the other cells keep their marks.
\* Length 5, hints [3], all Unknown: only index 2 becomes Filled.
C3_OverlapDeduction ==
    (/\ Len(rets) >= 1
     /\ rets[1].path = "general"
     /\ ConsistentPlacements(line.orig, line.hints) # {})
    => LET r == rets[1]
           all == ConsistentPlacements(line.orig, line.hints)
       IN /\ r.err = "none"
          /\ \A x \in Indexes(line.orig) :
                IF Cell(line.orig, x) # UNKNOWN
                THEN Cell(r.slice, x) = Cell(line.orig, x)
                ELSE /\ Cell(r.slice, x) = FILLED <=>
                            \A p \in all : Covered(line.hints, p, x)
                     /\ Cell(r.slice, x) = BLANK <=>
                            \A p \in all : ~Covered(line.hints, p, x)
          /\ (line.orig = <<0, 0, 0, 0, 0>> /\ line.hints = <<3>>)
                => r.slice = <<0, 0, 1, 0, 0>>

C3_Witness ==
    /\ Len(rets) = 1
    /\ rets[1].path = "general"
    /\ rets[1].err = "none"
    /\ \E x, y, z \in Indexes(line.orig) :
          /\ Cell(line.orig, x) = UNKNOWN /\ Cell(rets[1].slice, x) = FILLED
          /\ Cell(line.orig, y) = UNKNOWN /\ Cell(rets[1].slice, y) = BLANK
          /\ Cell(rets[1].slice, z) = UNKNOWN

\* C4: whatever the marks of the line, if sum(hints)+len(hints)-1 is greater
\* than the line length then solve_slice raises SolveError.
C4_TooLargeRaises ==
    (Len(rets) >= 1 /\ HintsWidth(line.hints) > Len(line.orig))
    => rets[1].err # "none"

\* C5: on a line with non-empty hints whose marks admit no consistent
\* placement, solve_slice raises SolveError and never reports the line done.
C5_NoPlacementRaises ==
    (/\ Len(rets) >= 1
     /\ line.hints # <<>>
     /\ ConsistentPlacements(line.orig, line.hints) = {})
    => rets[1].err # "none" /\ ~rets[1].done

\* C6 as stated: once solve_slice has returned done for a line, a second call
\* on it returns an empty changed-cell list and changes no cell, whichever
\* rule made the line done.
C6_IdempotentAsStated ==
    (Len(rets) = 2 /\ rets[1].err = "none" /\ rets[1].done)
    => rets[2].changed = <<>> /\ rets[2].slice = rets[1].slice

\* C6 as amended: once solve_slice has returned done for a line, a second
\* call on it raises nothing and changes no cell; its changed-cell list is
\* empty unless the line was done by one of the two fast paths (empty hints,
\* one full-width hint), which report every cell as changed on every call.
C6_Idempotent ==
    (Len(rets) = 2 /\ rets[1].err = "none" /\ rets[1].done)
    => /\ rets[2].err = "none"
       /\ rets[2].slice = rets[1].slice
       /\ rets[2].changed =
             IF rets[1].path \in {"zero", "one"}
             THEN IndexesIn(0, Len(line.orig), Indexes(line.orig))
             ELSE <<>>

C6_Witness ==
    /\ Len(rets) = 2
    /\ rets[1].done
    /\ rets[1].path = "general"
    /\ rets[1].changed # <<>>
    /\ rets[2].changed = <<>>

\* C7: where the exact-fit path applies, the cells it writes are the cells
\* the general path (the big hammer and its done check) leaves on the same
\* line.
C7_PerfectFitAsGeneral ==
    (Len(rets) >= 1 /\ rets[1].path = "perfect")
    => LET lra == get_slice_left_right_available(line.orig)
           g == SolveGeneral(line.orig, line.hints, lra.available, lra.left,
                             lra.right, -1)
       IN g.err = "none" /\ g.slice = rets[1].slice

(***************************************************************************)
(* The two-process specification: the program is started twice in force    *)
(* mode on the same puzzle with the same --seed; the two processes are     *)
(* followed side by side, a step of each at a time, for MaxGuesses guesses. *)
(***************************************************************************)
Seeds == (0..MaxSeed) \cup {DEFAULT_SEED}

PairInit ==
    /\ \E p \in Puzzles, sd \in Seeds :
          config = p @@ [force |-> TRUE, seed |-> sd]
    /\ run = RunStart(config)
    /\ run2 = RunStart(config)
    /\ guesses = NoGuesses
    /\ rng = <<SeedRng(config.seed), SeedRng(config.seed)>>
    /\ gen = NoGen
    /\ yielded = <<>>
    /\ line = NoLine
    /\ rets = <<>>

PairStep ==
    /\ run.pc \notin Terminal \/ run2.pc \notin Terminal
    /\ Len(guesses[1]) < MaxGuesses /\ Len(guesses[2]) < MaxGuesses
    /\ LET n1 == DrawBound(config, run)
           n2 == DrawBound(config, run2)
       IN \E s1 \in RngChoices(rng[1], n1), s2 \in RngChoices(rng[2], n2) :
             /\ run' = Step(config, run, RngValue(s1, n1))
             /\ run2' = Step(config, run2, RngValue(s2, n2))
             /\ guesses' =
                   <<StepGuesses(config, run, RngValue(s1, n1), guesses[1]),
                     StepGuesses(config, run2, RngValue(s2, n2), guesses[2])>>
             /\ rng' = <<RngNext(rng[1], s1, n1), RngNext(rng[2], s2, n2)>>
    /\ UNCHANGED <<gen, yielded, line, rets, config>>

PairNext == PairStep

SpecPair == PairInit /\ [][PairNext]_vars

(***************************************************************************)
(* Claims about the solver                                                 *)
(***************************************************************************)
\* the lengths of the maximal FILLED runs of a slice, left to right
RECURSIVE FilledRuns(_, _, _)
FilledRuns(slice, x, runs) ==
    IF x > Len(slice) THEN runs
    ELSE IF slice[x] # FILLED THEN FilledRuns(slice, x + 1, runs)
    ELSE IF x > 1 /\ slice[x - 1] = FILLED
    THEN FilledRuns(slice, x + 1, [runs EXCEPT ![Len(runs)] = @ + 1])
    ELSE FilledRuns(slice, x + 1, Append(runs, 1))

\* no cell is UNKNOWN and every row and column shows exactly its hints
ConsistentGrid(cfg, grid) ==
    /\ \A y \in 1..cfg.rown : \A x \in 1..cfg.coln : grid[y][x] # UNKNOWN
    /\ \A y \in 1..cfg.rown : FilledRuns(grid[y], 1, <<>>) = cfg.rows[y]
    /\ \A x \in 0..(cfg.coln - 1) :
          FilledRuns(Column(grid, x), 1, <<>>) = cfg.cols[x + 1]

\* C8: when the run ends with SOLVED (solve_next returned done), no cell of
\* the grid is Unknown and the maximal Filled runs of every row and every
\* column are that line's hints.
C8_SolvedIsConsistent ==
    run.pc = "solved" => ConsistentGrid(config, run.board.grid)

\* the two lists agree wherever both have an entry
SameSoFar(a, b) ==
    \A k \in 1..Len(a) : k <= Len(b) => a[k] = b[k]

\* C9: two runs in force mode on the same puzzle with the same seed make
\* the same guesses, guess by guess (same line, same move), and when both
\* have ended their grids are equal; for every integer seed.
C9_SameSeedSameGuesses ==
    /\ SameSoFar(guesses[1], guesses[2])
    /\ (run.pc \in Terminal /\ run2.pc \in Terminal
           => run.board.grid = run2.board.grid)

\* C10: whenever a round raised SolveError and there was no checkpoint
\* (board_prev) to go back to, the run has ended Dead: the loop has stopped
\* and no further round or guess follows, with and without --force.
C10_ContradictionWithoutCheckpointIsDead ==
    run.raised = "without checkpoint" => run.pc = "dead"

(***************************************************************************)
(* The picture specification: one run of the main loop on a puzzle that    *)
(* has a solution, its hints being read off a picture of at most           *)
(* PicMaxRows rows and PicMaxCols columns.  These are the puzzles on which *)
(* guesses are undone and the checkpoint is gone back to.  The numbers     *)
(* drawn are those of the seeded generator.                                *)
(***************************************************************************)
Pictures ==
    UNION {[1..d[1] -> [1..d[2] -> {FILLED, BLANK}]] :
           d \in (1..PicMaxRows) \X (1..PicMaxCols)}

\* the puzzle file of a picture: one hint per run of FILLED cells
PuzzleOf(pic) ==
    [rown |-> Len(pic), coln |-> Len(pic[1]),
     rows |-> [y \in 1..Len(pic) |-> FilledRuns(pic[y], 1, <<>>)],
     cols |-> [x \in 1..Len(pic[1]) |->
                  FilledRuns(Column(pic, x - 1), 1, <<>>)]]

PictureInit ==
    /\ \E pic \in Pictures, f \in BOOLEAN, sd \in Seeds :
          config = PuzzleOf(pic) @@ [force |-> f, seed |-> sd]
    /\ run = RunStart(config)
    /\ run2 = NoRun
    /\ guesses = NoGuesses
    /\ rng = <<SeedRng(config.seed)>>
    /\ gen = NoGen
    /\ yielded = <<>>
    /\ line = NoLine
    /\ rets = <<>>

\* one step of the run, its draw being what the generator returns
PictureStep ==
    /\ run.pc \notin Terminal
    /\ LET n == DrawBound(config, run)
       IN \E s \in RngChoices(rng[1], n) :
            /\ run' = Step(config, run, RngValue(s, n))
            /\ rng' = <<RngNext(rng[1], s, n)>>
    /\ UNCHANGED <<gen, yielded, line, rets, config, run2, guesses>>

PictureNext == PictureStep

SpecPicture == PictureInit /\ [][PictureNext]_vars

(***************************************************************************)
(* Claims about guessing (force mode)                                      *)
(***************************************************************************)
\* C11: a guess episode always ends: once every number that randrange can
\* return has been tried and none gave a legal forced placement (the
\* episode is back at its draw with nothing left to try), the run is Dead;
\* force_random_move does not keep drawing.
C11_ExhaustedDrawsEndDead ==
    (/\ run.frm.total > 0
     /\ run.frm.tried = RandRange(run.frm.total)
     /\ run.frm.k = 0)
       => run.pc = "dead"

(***************************************************************************)
(* Claims about the main loop                                              *)
(***************************************************************************)
\* the verdicts of a run without --force
Verdicts == {"solved", "dead", "stalled"}

\* the cells still UNKNOWN plus the lines not yet marked solved
Unsettled(b) ==
    Cardinality({c \in (1..Len(b.grid)) \X (1..Len(b.grid[1])) :
                    b.grid[c[1]][c[2]] = UNKNOWN})
    + Cardinality({y \in 1..Len(b.row_solved) : ~b.row_solved[y]})
    + Cardinality({x \in 1..Len(b.col_solved) : ~b.col_solved[x]})

\* C12: without --force every run ends, after finitely many rounds, with one
\* of the verdicts Solved, Dead (a SolveError was raised) or stalled
\* ("Unsolved, but couldn't find anything else to do"), for every puzzle:
\* the run is either still in a round or has ended with one of the three,
\* and every round that does not end the run leaves fewer unknown cells
\* and unsolved lines than it found.
C12_NoForceEndsInVerdict ==
    /\ [](~config.force => run.pc \in {"top"} \cup Verdicts)
    /\ [][~config.force /\ run'.pc = "top"
             => Unsettled(run'.board) < Unsettled(run.board)]_vars

\* without --force every round that does not end the run leaves fewer
\* unknown cells and unsolved lines than it found
C12_RoundsMakeProgress ==
    [][~config.force /\ run'.pc = "top"
          => Unsettled(run'.board) < Unsettled(run.board)]_vars

\* C13: there is one checkpoint (board_prev): it is taken at the first
\* stall of a run in force mode, as a copy of the board of that moment; once
\* taken no round, guess or revert changes or replaces it; and the round
\* that goes back to it leaves the working board equal to it in every array
\* (grid, row/col_solved, row/col_changed, row/col_moves).
C13_SingleCheckpoint ==
    [][/\ run.board_prev # None => run'.board_prev = run.board_prev
       /\ run.board_prev = None /\ run'.board_prev # None
             => /\ run.pc = "top" /\ run'.pc = "force"
                /\ run'.board_prev = <<run'.board>>
       /\ run.pc = "top" /\ run'.pc = "force" => run'.board_prev # None
       /\ run.pc = "top" /\ run'.raised = "with checkpoint"
             => run'.board = run.board_prev[1]]_vars

\* a round has raised SolveError after a guess and the board is the
\* checkpoint again, which differs from the board the round started on
C13_Witness ==
    /\ run.raised = "with checkpoint"
    /\ run.board = run.board_prev[1]
    /\ \E y \in 1..config.rown, x \in 1..config.coln :
          run.board.grid[y][x] = UNKNOWN

(***************************************************************************)
(* The legality specification: a caller holds one line with arbitrary      *)
(* marks and asks slice_is_legal about it, as force_random_move and         *)
(* check_all_legal do.                                                     *)
(***************************************************************************)
\* Board.slice_is_legal( line, hints ): "legal" for True, "illegal" for
\* False, "exit" when the call ends the process
LegalCall ==
    /\ rets = <<>>
    /\ rets' = <<slice_is_legal(line.slice, line.hints)>>
    /\ UNCHANGED <<line, gen, yielded, config, run, run2, guesses, rng>>

LegalNext == LegalCall

SpecLegal == LineInit /\ [][LegalNext]_vars

\* lines 273-294: the filter of recursive_solve lets a position through
GeneralAccepts(slice, hints) ==
    LET lra == get_slice_left_right_available(slice)
        all == get_all_positions(lra.left, lra.right, hints)
    IN \E k \in 1..Len(all) : PositionOkay(slice, hints, all[k], lra.right)

\* C14: on a line with hints, whatever its marks, slice_is_legal returns
\* True exactly when the filter of recursive_solve accepts a placement of
\* the line, that is when the general path would not raise SolveError.
C14_LegalIffGeneralAccepts ==
    (rets # <<>> /\ line.hints # <<>>)
       => (rets[1] = "legal" <=> GeneralAccepts(line.slice, line.hints))

\* C15: on a line without hints slice_is_legal returns True when no cell is
\* FILLED and False when some cell is FILLED; either way it returns a
\* boolean to its caller.
C15_EmptyHintsReturnsBoolean ==
    (rets # <<>> /\ line.hints = <<>>)
       => rets[1] = IF AnyEq(line.slice, 0, Len(line.slice), FILLED)
                    THEN "illegal" ELSE "legal"

\* some row or column of the board is not legal for its hints
IllegalLine(cfg, b) ==
    \/ \E y \in 0..(cfg.rown - 1) :
          slice_is_legal(b.grid[y + 1], cfg.rows[y + 1]) # "legal"
    \/ \E x \in 0..(cfg.coln - 1) :
          slice_is_legal(Column(b.grid, x), cfg.cols[x + 1]) # "legal"

\* C16: check_all_legal runs after every round and raises SolveError when a
\* row or a column of the grid is illegal, with or without hints: a round
\* that solve_next has finished and that leaves an illegal line ends in
\* the SolveError handler.
C16_IllegalLineRaises ==
    [][(/\ run.pc = "top"
        /\ run'.pc \notin {"fatal", "exit"}
        /\ IllegalLine(config, run'.board))
          => run'.raised # "no"]_vars

(***************************************************************************)
(* The forced-choice specification: a caller holds one line with arbitrary *)
(* marks and calls solve_slice on it with a forced choice, as              *)
(* force_random_move does with the move it drew.                           *)
(***************************************************************************)
\* ( changed_idx, dummy, done ) = self.solve_slice( row, hints, rowcol, move )
ForcedSolve ==
    /\ rets = <<>>
    /\ \E move \in 0..LineMaxForce :
          LET r == solve_slice(line.slice, line.hints, move)
          IN /\ rets' = <<[force |-> move, ret |-> r]>>
             /\ line' = [line EXCEPT !.slice = r.slice]
    /\ UNCHANGED <<gen, yielded, config, run, run2, guesses, rng>>

ForcedNext == ForcedSolve

SpecForced == LineInit /\ [][ForcedNext]_vars

\* the placements that the filter of recursive_solve accepts, in the order
\* of the enumeration
AcceptedPositions(slice, hints) ==
    LET lra == get_slice_left_right_available(slice)
        Accepts(p) == PositionOkay(slice, hints, p, lra.right)
    IN SelectSeq(get_all_positions(lra.left, lra.right, hints), Accepts)

\* the line after placement p was committed: its blocks FILLED, every other
\* cell of the trimmed bounds left..right BLANK
Committed(slice, hints, p) ==
    LET lra == get_slice_left_right_available(slice)
    IN [i \in 1..Len(slice) |->
          IF Covered(hints, p, i - 1) THEN FILLED
          ELSE IF lra.left <= i - 1 /\ i - 1 <= lra.right THEN BLANK
          ELSE slice[i]]

\* C17: solve_slice called with forced choice N on a line that has more than
\* N placements consistent with its marks returns with the cells of the N-th
\* of them (counted from 0, in enumeration order) FILLED and every other
\* cell of the trimmed bounds, the one at index right included, BLANK: no
\* cell of the line is left UNKNOWN.
C17_ForcedChoiceCommits ==
    (/\ rets # <<>>
     /\ line.hints # <<>>
     /\ Len(AcceptedPositions(line.orig, line.hints)) > rets[1].force)
       => /\ rets[1].ret.err = "none"
          /\ line.slice =
                Committed(line.orig, line.hints,
                   AcceptedPositions(line.orig, line.hints)[rets[1].force + 1])
          /\ ~AnyEq(line.slice, 0, Len(line.slice), UNKNOWN)

\* the placement counts of the unsolved rows and columns of a board
UnsolvedMoves(cfg, b) ==
    {b.row_moves[y] : y \in {y \in 1..cfg.rown : ~b.row_solved[y]}}
    \cup {b.col_moves[x] : x \in {x \in 1..cfg.coln : ~b.col_solved[x]}}

\* the placement count of the line that a choice names
ChoiceMoves(b, which) ==
    IF which < COL_BASE THEN b.row_moves[which + 1]
    ELSE b.col_moves[which - COL_BASE + 1]

\* C18: in force_random_move the weight of every unsolved line is the
\* largest placement count among the unsolved rows and columns minus the
\* line's own placement count, so an unsolved line with the largest count
\* has weight 0.
C18_WeightIsMaxMinusCount ==
    run.pc \in {"draw", "attempt"}
       => \A i \in 1..Len(run.frm.choices) :
             /\ run.frm.choices[i][1] + ChoiceMoves(run.board, run.frm.choices[i][2])
                   \in UnsolvedMoves(config, run.board)
             /\ \A m \in UnsolvedMoves(config, run.board) :
                   m <= run.frm.choices[i][1]
                           + ChoiceMoves(run.board, run.frm.choices[i][2])

(***************************************************************************)
(* Claims about the rounds (solve_next)                                    *)
(***************************************************************************)
\* C19: a round calls the line solver on the lines that are unsolved and
\* dirty (row_changed / col_changed), and each such call clears the dirty
\* flag of its line; the line is dirty again only when a solve of a crossing
\* line changed one of its cells.  So after a round in which no cell changed
\* every line the round has solved is clean, and the next round skips it.
C19_SolveClearsDirtyFlag ==
    [][(/\ run.pc = "top"
        /\ run'.assigned /\ run'.raised = "no" /\ ~run'.changed
        /\ run'.pc \notin {"fatal", "exit"})
          => /\ \A y \in 1..config.rown :
                   (~run.board.row_solved[y] /\ run.board.row_changed[y])
                      => ~run'.board.row_changed[y]
             /\ \A x \in 1..config.coln :
                   (~run.board.col_solved[x] /\ run.board.col_changed[x])
                      => ~run'.board.col_changed[x]]_vars

\* C20: an attempt of force_random_move whose forced placement makes a
\* crossing line illegal is undone: the board is again what it was before
\* the attempt, and the next choice or the next draw follows.  When
\* force_random_move returns, the grid differs from the grid before the
\* accepted attempt only on the line of the attempt, and every crossing line
\* through a cell that the attempt changed is legal for slice_is_legal.
C20_GuessUndoneOrLegal ==
    [][run.pc = "attempt"
          => /\ run'.pc \in {"draw", "attempt"} => run'.board = run.board
             /\ run'.pc = "top"
                   => \A y \in 1..config.rown, x \in 1..config.coln :
                         run'.board.grid[y][x] # run.board.grid[y][x]
                            => IF AttemptIsRow(run)
                               THEN /\ y - 1 = AttemptWhich(run)
                                    /\ slice_is_legal(
                                          Column(run'.board.grid, x - 1),
                                          config.cols[x]) = "legal"
                               ELSE /\ x - 1 = AttemptWhich(run)
                                    /\ slice_is_legal(run'.board.grid[y],
                                          config.rows[y]) = "legal"]_vars

\* force_random_move is back at its draw after every choice that the drawn
\* number led to was tried and undone
C20_Witness ==
    /\ run.pc = "draw"
    /\ run.frm.tried # {}
    /\ run.frm.k = 0

C22_InitialBoardComplete ==
    /\ [](run = RunStart(config) =>
            /\ \A y \in 1..config.rown, x \in 1..config.coln :
                  run.board.grid[y][x] = UNKNOWN
            /\ \A y \in 1..config.rown :
                  /\ y \in DOMAIN run.board.row_solved
                  /\ ~run.board.row_solved[y]
                  /\ y \in DOMAIN run.board.row_changed
                  /\ run.board.row_changed[y]
            /\ \A x \in 1..config.coln :
                  /\ x \in DOMAIN run.board.col_solved
                  /\ ~run.board.col_solved[x]
                  /\ x \in DOMAIN run.board.col_changed
                  /\ run.board.col_changed[x])
    /\ [][run = RunStart(config) => run'.pc # "fatal"]_vars

\* the rows and columns of board b that are marked solved hold no UNKNOWN
SolvedLinesDecided(b) ==
    /\ \A y \in 1..Len(b.grid) :
          b.row_solved[y] => ~AnyEq(b.grid[y], 0, Len(b.grid[y]), UNKNOWN)
    /\ \A x \in 1..Len(b.grid[1]) :
          b.col_solved[x] => ~AnyEq(Column(b.grid, x - 1), 0, Len(b.grid), UNKNOWN)

\* the solved marks that differ between boards a and b, rows as y and
\* columns as x + COL_BASE
MarksChanged(a, b) ==
    {y \in 0..(Len(a.row_solved) - 1) : a.row_solved[y + 1] # b.row_solved[y + 1]}
    \cup {x + COL_BASE : x \in {x \in 0..(Len(a.col_solved) - 1) :
                                   a.col_solved[x + 1] # b.col_solved[x + 1]}}

\* C23: on every board of a run (after rounds, guesses on rows, guesses on
\* columns and reverts) each row and each column that is marked solved
\* holds no UNKNOWN cell; and a guess (force_random_move) changes no solved
\* mark but that of the line it was made on.
C23_SolvedMarksSound ==
    /\ [](SolvedLinesDecided(run.board))
    /\ [][run.pc = "attempt" =>
             MarksChanged(run.board, run'.board)
                \subseteq {run.frm.choices[run.frm.k][2]}]_vars
====
